---- MODULE Spec2Model ----
(***************************************************************************)
(* Model of Ferox_parser.py: the pipeline of main() -- extract_urls,       *)
(* detect_base_url, build_tree, count_directories -- over the text of one  *)
(* scanner output file.                                                    *)
(*                                                                         *)
(* Python strings are sequences of one-character strings, so that the      *)
(* string operations of the code (regex search, rstrip, strip, split,      *)
(* startswith, endswith, urlparse) are computed and not assumed.           *)
(***************************************************************************)
EXTENDS Integers, Sequences, FiniteSets, TLC

VARIABLES
    lines,       \* the lines of the input file read so far (for line in file)
    urls,        \* extract_urls: the list `urls`
    base_url,    \* main: base_url = detect_base_url(urls); None is <<>>
    seen_bases,  \* every value detect_base_url has returned for this input file
    nodes,       \* the TreeNode objects, in creation order; nodes[1] is root
    idx,         \* build_tree: how many elements of urls the loop has processed
    counts,      \* count_directories: the dict `counts`
    phase,       \* position in main: "extract", "build", "done", "classified", "exit"
    run,         \* which execution of main() on this input file this is
    important_files,  \* identify_important_files: the list `important_files`
    rule_log     \* per element of urls, the patterns identify_important_files searched

vars == <<lines, urls, base_url, seen_bases, nodes, idx, counts, phase, run,
          important_files, rule_log>>

----------------------------------------------------------------------------
(* Bounds of the model. *)

MaxLines == 2   \* lines in the input file
MaxDepth == 2   \* segments in a path of the tree inputs
MaxRuns == 2    \* executions of main() on one input file

----------------------------------------------------------------------------
(* Strings. *)

None == <<>>

HTTP == <<"h", "t", "t", "p">>
HTTPS == <<"h", "t", "t", "p", "s">>
COLON_SLASHES == <<":", "/", "/">>

Last(s) == s[Len(s)]

StartsWith(s, p) == Len(p) <= Len(s) /\ SubSeq(s, 1, Len(p)) = p

EndsWith(s, p) == Len(p) <= Len(s) /\ SubSeq(s, Len(s) - Len(p) + 1, Len(s)) = p

RECURSIVE RStrip(_, _)
RStrip(s, chars) ==
    IF s # <<>> /\ Last(s) \in chars THEN RStrip(SubSeq(s, 1, Len(s) - 1), chars) ELSE s

RECURSIVE LStrip(_, _)
LStrip(s, chars) ==
    IF s # <<>> /\ Head(s) \in chars THEN LStrip(Tail(s), chars) ELSE s

Strip(s, chars) == LStrip(RStrip(s, chars), chars)

\* str.split(sep): always at least one part; adjacent separators give empty parts.
RECURSIVE SplitAcc(_, _, _)
SplitAcc(s, sep, cur) ==
    IF s = <<>> THEN <<cur>>
    ELSE IF Head(s) = sep THEN <<cur>> \o SplitAcc(Tail(s), sep, <<>>)
    ELSE SplitAcc(Tail(s), sep, Append(cur, Head(s)))

Split(s, sep) == SplitAcc(s, sep, <<>>)

\* The smallest index of s holding a character of chars, or Len(s) + 1.
FirstOf(s, chars) ==
    IF \E i \in 1..Len(s) : s[i] \in chars
    THEN CHOOSE i \in 1..Len(s) : s[i] \in chars /\ \A j \in 1..(i - 1) : s[j] \notin chars
    ELSE Len(s) + 1

LowerChar(c) == IF c = "A" THEN "a" ELSE IF c = "B" THEN "b" ELSE c

Lower(s) == [i \in 1..Len(s) |-> LowerChar(s[i])]

ReplaceBackslash(s) == [i \in 1..Len(s) |-> IF s[i] = "\\" THEN "/" ELSE s[i]]

\* posixpath.join(a, b)
OsPathJoin(a, b) ==
    IF StartsWith(b, <<"/">>) THEN b
    ELSE IF a = <<>> \/ EndsWith(a, <<"/">>) THEN a \o b
    ELSE a \o <<"/">> \o b

----------------------------------------------------------------------------
(* extract_urls *)

Whitespace == {" "}

\* re.compile(r'(https?://\S+)') matching at index i of line.
UrlPatternAt(line, i) ==
    LET rest == SubSeq(line, i, Len(line))
        after(p) == Len(rest) > Len(p) /\ rest[Len(p) + 1] \notin Whitespace
    IN  \/ StartsWith(rest, HTTP \o COLON_SLASHES) /\ after(HTTP \o COLON_SLASHES)
        \/ StartsWith(rest, HTTPS \o COLON_SLASHES) /\ after(HTTPS \o COLON_SLASHES)

\* url_pattern.search(line): does the line hold a match
UrlPatternSearch(line) == \E i \in 1..Len(line) : UrlPatternAt(line, i)

\* match.group(1): the leftmost match, through the last non-space character
MatchGroup(line) ==
    LET i == CHOOSE k \in 1..Len(line) :
                 UrlPatternAt(line, k) /\ \A j \in 1..(k - 1) : ~UrlPatternAt(line, j)
        rest == SubSeq(line, i, Len(line))
    IN  SubSeq(rest, 1, FirstOf(rest, Whitespace) - 1)

\* One iteration of `for line in file`: the urls the line adds.
ExtractLineUrls(line) ==
    IF UrlPatternSearch(line) THEN <<RStrip(MatchGroup(line), {" ", ","})>> ELSE <<>>

RECURSIVE extract_urls(_)
extract_urls(file) ==
    IF file = <<>> THEN <<>>
    ELSE extract_urls(SubSeq(file, 1, Len(file) - 1)) \o ExtractLineUrls(Last(file))

\* is_dir(url)
is_dir(url) == EndsWith(url, <<"/">>)

----------------------------------------------------------------------------
(* urlparse, for the URLs url_pattern can match: scheme://netloc path ?query #fragment *)

urlparse(url) ==
    LET c == FirstOf(url, {":"})
        hasNetloc == c <= Len(url) /\ StartsWith(SubSeq(url, c + 1, Len(url)), <<"/", "/">>)
        afterScheme == IF c <= Len(url) THEN SubSeq(url, c + 1, Len(url)) ELSE url
        afterSlashes == IF hasNetloc THEN SubSeq(afterScheme, 3, Len(afterScheme)) ELSE afterScheme
        n == FirstOf(afterSlashes, {"/", "?", "#"})
        rest == IF hasNetloc THEN SubSeq(afterSlashes, n, Len(afterSlashes)) ELSE afterSlashes
    IN  [scheme |-> IF c <= Len(url) THEN Lower(SubSeq(url, 1, c - 1)) ELSE <<>>,
         netloc |-> IF hasNetloc THEN SubSeq(afterSlashes, 1, n - 1) ELSE <<>>,
         path   |-> SubSeq(rest, 1, FirstOf(rest, {"?", "#"}) - 1)]

----------------------------------------------------------------------------
(* detect_base_url *)

\* f"{parsed.scheme}://{parsed.netloc}"
BaseUrlOf(url) == urlparse(url).scheme \o COLON_SLASHES \o urlparse(url).netloc

\* the set base_urls after the loop
BaseUrlSet(us) ==
    {BaseUrlOf(us[i]) : i \in {j \in 1..Len(us) :
        urlparse(us[j]).scheme # <<>> /\ urlparse(us[j]).netloc # <<>>}}

\* sum(1 for url in urls if url.startswith(x))
MatchCount(us, x) == Cardinality({i \in 1..Len(us) : StartsWith(us[i], x)})

\* The orders in which a Python set of strings can be iterated: the order follows
\* the strings' hashes, which are salted per process (PYTHONHASHSEED).
IterationOrders(S) ==
    {o \in [1..Cardinality(S) -> S] : \A i, j \in 1..Cardinality(S) : i # j => o[i] # o[j]}

\* max(iterable, key=...): the first element, in iteration order, whose key is largest
MaxByMatchCount(order, us) ==
    order[CHOOSE i \in 1..Len(order) :
        /\ \A j \in 1..Len(order) : MatchCount(us, order[j]) <= MatchCount(us, order[i])
        /\ \A j \in 1..(i - 1) : MatchCount(us, order[j]) < MatchCount(us, order[i])]

\* detect_base_url(urls), with `order` the iteration order of base_urls
detect_base_url(us, order) ==
    IF us = <<>> THEN None
    ELSE IF Cardinality(BaseUrlSet(us)) = 1 THEN order[1]
    ELSE IF Cardinality(BaseUrlSet(us)) > 1 THEN MaxByMatchCount(order, us)
    ELSE None

----------------------------------------------------------------------------
(* TreeNode and build_tree *)

\* TreeNode.__init__; children maps a name to the index in nodes of the child
TreeNode(name, d) == [name |-> name, is_dir |-> d, children |-> <<>>]

Root == 1

\* add_child without its membership test: every call stores a new TreeNode under
\* child_name, and the node the key held before is no longer a child.
add_child_replacing(t, n, child_name, d) ==
    [tree |-> Append([t EXCEPT ![n].children =
                          [k \in (DOMAIN @) \cup {child_name} |->
                              IF k = child_name THEN Len(t) + 1 ELSE @[k]]],
                     TreeNode(child_name, d)),
     node |-> Len(t) + 1]

\* add_child that also stores is_dir on a child that exists already.
add_child_retyping(t, n, child_name, d) ==
    IF child_name \notin DOMAIN t[n].children
    THEN [tree |-> Append([t EXCEPT ![n].children = @ @@ (child_name :> (Len(t) + 1))],
                          TreeNode(child_name, d)),
          node |-> Len(t) + 1]
    ELSE [tree |-> [t EXCEPT ![t[n].children[child_name]].is_dir = d],
          node |-> t[n].children[child_name]]

\* TreeNode.add_child on nodes[n]: the tree afterwards and the child returned
add_child(t, n, child_name, d) ==
    IF child_name \notin DOMAIN t[n].children
    THEN [tree |-> Append([t EXCEPT ![n].children = @ @@ (child_name :> (Len(t) + 1))],
                          TreeNode(child_name, d)),
          node |-> Len(t) + 1]
    ELSE [tree |-> t, node |-> t[n].children[child_name]]

\* urljoin(base_path, path) for the paths urlparse yields here (empty or absolute)
urljoin(base, path) ==
    IF base = <<>> THEN path ELSE IF path = <<>> THEN base ELSE path

\* the path build_tree splits: parsed.path, adjusted relative to base_url
AdjustedPath(url, base) ==
    LET path == urlparse(url).path
        parsed_base_path == urlparse(base).path
    IN  IF base # None /\ ~StartsWith(path, parsed_base_path)
        THEN IF parsed_base_path # <<"/">> THEN urljoin(parsed_base_path, path) ELSE path
        ELSE path

\* path.strip('/').split('/')
PathParts(path) == Split(Strip(path, {"/"}), "/")

\* for i, part in enumerate(parts), from index i (0-based) with current_node cur
RECURSIVE WalkParts(_, _, _, _, _)
WalkParts(t, cur, parts, i, url) ==
    IF i >= Len(parts) THEN t
    ELSE IF parts[i + 1] = <<>> THEN WalkParts(t, cur, parts, i + 1, url)
    ELSE LET part_is_dir == (i < Len(parts) - 1) \/ is_dir(url)
             r == add_child(t, cur, parts[i + 1], part_is_dir)
         IN  WalkParts(r.tree, r.node, parts, i + 1, url)

\* one iteration of `for url in urls` of build_tree
BuildTreeUrl(t, url, base) == WalkParts(t, Root, PathParts(AdjustedPath(url, base)), 0, url)

\* build_tree(urls, base_url)
RECURSIVE build_tree(_, _)
build_tree(us, base) ==
    IF us = <<>> THEN <<TreeNode(<<"/">>, TRUE)>>
    ELSE BuildTreeUrl(build_tree(SubSeq(us, 1, Len(us) - 1), base), Last(us), base)

----------------------------------------------------------------------------
(* count_directories *)

\* node.children.values(): the children in insertion order, which is creation order
RECURSIVE Ascending(_)
Ascending(S) ==
    IF S = {} THEN <<>>
    ELSE LET m == CHOOSE x \in S : \A y \in S : x <= y IN <<m>> \o Ascending(S \ {m})

ChildList(t, n) == Ascending({t[n].children[k] : k \in DOMAIN t[n].children})

\* the defaultdict's factory
NewDirectoryEntry == [path |-> <<>>, subdirs |-> 0, files |-> 0, items |-> <<>>]

\* counts['directories'][path]: a read of the defaultdict creates the entry
Touch(dirs, path) == IF path \in DOMAIN dirs THEN dirs ELSE dirs @@ (path :> NewDirectoryEntry)

\* the initial counts and unique_paths
NewCounts == [total_dirs |-> 0, total_files |-> 0, directories |-> <<>>, unique_paths |-> {}]

RECURSIVE count_directories(_, _, _, _)
RECURSIVE CountChildren(_, _, _, _)

\* the body of `for child in node.children.values()`, over the children left
CountChildren(t, kids, c, path) ==
    IF kids = <<>> THEN c
    ELSE LET child == Head(kids)
             d == Touch(c.directories, path)
             c1 == IF t[child].is_dir
                   THEN [c EXCEPT !.directories = [d EXCEPT ![path].subdirs = @ + 1]]
                   ELSE [c EXCEPT !.directories = [d EXCEPT ![path].files = @ + 1,
                                                            ![path].items = Append(@, t[child].name)],
                                  !.total_files = @ + 1]
             c2 == count_directories(t, child, c1, path \o <<"/">>)
         IN  CountChildren(t, Tail(kids), c2, path)

count_directories(t, n, c, current_path) ==
    IF t[n].is_dir
    THEN LET path == RStrip(ReplaceBackslash(OsPathJoin(current_path, t[n].name)), {"/"})
             c1 == [c EXCEPT !.total_dirs = @ + 1]
             c2 == IF path \notin c1.unique_paths
                   THEN [c1 EXCEPT !.unique_paths = @ \cup {path},
                                   !.directories = [Touch(@, path) EXCEPT ![path].path = path]]
                   ELSE c1
         IN  CountChildren(t, ChildList(t, n), c2, path)
    ELSE c

----------------------------------------------------------------------------
(* identify_important_files *)

UpperLetters ==
    <<"A", "B", "C", "D", "E", "F", "G", "H", "I", "J", "K", "L", "M", "N", "O", "P", "Q", "R", "S", "T", "U", "V", "W", "X", "Y", "Z">>

LowerLetters ==
    <<"a", "b", "c", "d", "e", "f", "g", "h", "i", "j", "k", "l", "m", "n", "o", "p", "q", "r", "s", "t", "u", "v", "w", "x", "y", "z">>

\* re.IGNORECASE: letters are compared folded to lower case
FoldChar(c) ==
    IF \E i \in 1..Len(UpperLetters) : UpperLetters[i] = c
    THEN LowerLetters[CHOOSE i \in 1..Len(UpperLetters) : UpperLetters[i] = c]
    ELSE c

Fold(s) == [i \in 1..Len(s) |-> FoldChar(s[i])]

\* the characters of the inputs that are not \w
NonWordChars == {".", "/", "-", " ", ",", "?", "#", ":", "!"}

IsWordChar(c) == c \notin NonWordChars

\* important_patterns, in the order of the dict literal
ImportantPatterns ==
    << [category |-> "Password Managers", words |->
           {<<"k", "d", "b", "x">>, <<"1", "p", "i", "f">>, <<"p", "s", "a", "f", "e", "3">>,
            <<"p", "w", "d">>, <<"d", "a", "t">>, <<"b", "p", "w">>, <<"l", "c", "k">>}],
       [category |-> "Backup Files", words |->
           {<<"b", "a", "k">>, <<"b", "a", "c", "k", "u", "p">>, <<"o", "l", "d">>,
            <<"w", "b", "k">>, <<"b", "c", "k">>, <<"t", "m", "p">>}],
       [category |-> "Network Configuration Files", words |->
           {<<"c", "o", "n", "f">>, <<"c", "f", "g">>, <<"i", "n", "i">>,
            <<"c", "o", "n", "f", "i", "g">>, <<"h", "t", "a", "c", "c", "e", "s", "s">>,
            <<"h", "t", "p", "a", "s", "s", "w", "d">>}],
       [category |-> "Database Files", words |->
           {<<"s", "q", "l">>, <<"d", "b">>, <<"s", "q", "l", "i", "t", "e">>,
            <<"s", "q", "l", "i", "t", "e", "3">>, <<"m", "d", "b">>,
            <<"a", "c", "c", "d", "b">>, <<"f", "r", "m">>, <<"m", "y", "d">>,
            <<"m", "y", "i">>}],
       [category |-> "Sensitive Filenames", words |->
           {<<"a", "d", "m", "i", "n">>, <<"p", "a", "s", "s", "w", "o", "r", "d">>,
            <<"p", "a", "s", "s", "w", "d">>}] >>

\* re.compile(r'\.(w1|w2|...)$', re.IGNORECASE).search(filename)
ExtensionSearch(words, filename) ==
    \E w \in words : EndsWith(Fold(filename), <<".">> \o w)

\* re.compile(r'\b(w1|w2|...)\b', re.IGNORECASE).search(filename)
KeywordSearch(words, filename) ==
    \E w \in words : \E i \in 1..Len(filename) :
        /\ i + Len(w) - 1 <= Len(filename)
        /\ SubSeq(Fold(filename), i, i + Len(w) - 1) = w
        /\ i = 1 \/ ~IsWordChar(filename[i - 1])
        /\ i + Len(w) > Len(filename) \/ ~IsWordChar(filename[i + Len(w)])

\* important_patterns[category].search(filename), for the k-th pattern
PatternSearch(k, filename) ==
    IF ImportantPatterns[k].category = "Sensitive Filenames"
    THEN KeywordSearch(ImportantPatterns[k].words, filename)
    ELSE ExtensionSearch(ImportantPatterns[k].words, filename)

SensitiveIndex == CHOOSE k \in 1..Len(ImportantPatterns) :
                      ImportantPatterns[k].category = "Sensitive Filenames"

\* os.path.basename(path)
Basename(path) == Last(Split(path, "/"))

\* truncate_to_parent(path)
truncate_to_parent(path) ==
    LET parts == Split(Strip(path, {"/"}), "/")
    IN  IF Len(parts) >= 2 THEN parts[Len(parts) - 1] \o <<"/">> \o parts[Len(parts)]
        ELSE IF Len(parts) = 1 THEN parts[1]
        ELSE path

\* the dict appended to important_files for url
ImportantEntry(url) == [display |-> truncate_to_parent(urlparse(url).path), url |-> url]

\* `for category, pattern in important_patterns.items()` from the k-th item on:
\* the categories whose pattern is searched, and whether one matched (break)
RECURSIVE ExtensionLoop(_, _)
ExtensionLoop(filename, k) ==
    IF k > Len(ImportantPatterns) THEN [checked |-> <<>>, matched |-> FALSE]
    ELSE IF ImportantPatterns[k].category = "Sensitive Filenames"
         THEN ExtensionLoop(filename, k + 1)
    ELSE IF PatternSearch(k, filename)
         THEN [checked |-> <<ImportantPatterns[k].category>>, matched |-> TRUE]
    ELSE LET r == ExtensionLoop(filename, k + 1)
         IN  [checked |-> <<ImportantPatterns[k].category>> \o r.checked,
              matched |-> r.matched]

\* the loop body with the `continue` after the sensitive-filename check left
\* out: the extension patterns are searched as well.
IdentifyUrl_without_continue(url) ==
    LET filename == Basename(urlparse(url).path)
        r == ExtensionLoop(filename, 1)
        first == IF PatternSearch(SensitiveIndex, filename)
                 THEN <<ImportantEntry(url)>> ELSE <<>>
    IN  IF filename = <<>> THEN [checked |-> <<>>, entries |-> <<>>]
        ELSE [checked |-> <<"Sensitive Filenames">> \o r.checked,
              entries |-> first \o (IF r.matched THEN <<ImportantEntry(url)>> ELSE <<>>)]

\* one iteration of `for url in urls` of identify_important_files: the
\* categories whose pattern is searched, in order, and the entries appended
IdentifyUrl(url) ==
    LET filename == Basename(urlparse(url).path)
        r == ExtensionLoop(filename, 1)
    IN  IF filename = <<>> THEN [checked |-> <<>>, entries |-> <<>>]
        ELSE IF PatternSearch(SensitiveIndex, filename)
             THEN [checked |-> <<"Sensitive Filenames">>, entries |-> <<ImportantEntry(url)>>]
        ELSE [checked |-> <<"Sensitive Filenames">> \o r.checked,
              entries |-> IF r.matched THEN <<ImportantEntry(url)>> ELSE <<>>]

\* identify_important_files(urls): important_files, and per url what the loop did
RECURSIVE identify_important_files(_)
identify_important_files(us) ==
    IF us = <<>> THEN [important_files |-> <<>>, log |-> <<>>]
    ELSE LET before == identify_important_files(SubSeq(us, 1, Len(us) - 1))
             this == IdentifyUrl(Last(us))
         IN  [important_files |-> before.important_files \o this.entries,
              log |-> Append(before.log, [checked |-> this.checked,
                                          added |-> Len(this.entries)])]

----------------------------------------------------------------------------
(* The input files the specifications read. *)

SegNames == {<<"a">>, <<"A">>}

\* the sequences of at most d segment names
SegSeqs(d) == UNION {[1..k -> SegNames] : k \in 0..d}

RECURSIVE JoinSegs(_)
JoinSegs(segs) == IF segs = <<>> THEN <<>> ELSE <<"/">> \o Head(segs) \o JoinSegs(Tail(segs))

HostH == HTTP \o COLON_SLASHES \o <<"h">>

Status200 == <<"2", "0", "0", " ">>
Status404 == <<"4", "0", "4", " ">>

\* Spec: every path of at most MaxDepth segments under one host, without a
\* trailing slash, with one, and with one followed by a query.
TreeUrls ==
    {HostH \o JoinSegs(s) \o e :
        s \in SegSeqs(MaxDepth), e \in {<<>>, <<"/">>, <<"/", "?", "q">>}}

TreeLines == {Status200 \o u : u \in TreeUrls}

\* SpecExtract: lines with and without a URL, with an accepted, an unaccepted
\* and no status code, the URL followed by a comma or not.
ExtractUrls == {HostH \o p : p \in {<<"/", "a">>, <<"/", "A">>, <<"/", "a", "/">>}}

NoUrlLines == {<<>>, <<"#", "!">>, Status200 \o <<"G", "E", "T">>, HTTP \o COLON_SLASHES}

ExtractLines ==
    {st \o u \o c : st \in {Status200, Status404, <<>>}, u \in ExtractUrls, c \in {<<>>, <<",">>}}
        \cup NoUrlLines

\* SpecBase: URLs of several origins, one a string prefix of another, one with
\* an empty host.
BaseLineUrls ==
    {sch \o COLON_SLASHES \o h \o p :
        sch \in {HTTP, HTTPS}, h \in {<<>>, <<"h">>, <<"h", "h">>}, p \in {<<"/", "a">>}}

BaseLines == {Status200 \o u : u \in BaseLineUrls}

\* SpecClassify: file names that match the keyword pattern, an extension
\* pattern, both, or none, and a directory.
ClassifyPaths ==
    {<<"/", "a", "d", "m", "i", "n">>,
     <<"/", "a", "d", "m", "i", "n", ".", "b", "a", "k">>,
     <<"/", "d", "/", "A", "d", "m", "i", "n", ".", "B", "A", "K">>,
     <<"/", "a", ".", "b", "a", "k">>,
     <<"/", "a", ".", "d", "b">>,
     <<"/", "a", ".", "i", "n", "i">>,
     <<"/", "a", ".", "p", "w", "d">>,
     <<"/", "a">>,
     <<"/", "d", "/">>,
     <<"/", "a", "d", "m", "i", "n", "a", ".", "s", "q", "l">>,
     <<"/", "a", "-", "p", "a", "s", "s", "w", "d">>,
     <<"/", "a", ".", "b", "a", "k", ".", "t", "x", "t">>}

ClassifyLines == {Status200 \o HostH \o p : p \in ClassifyPaths}

----------------------------------------------------------------------------
(* main *)

Init ==
    /\ lines = <<>>
    /\ urls = <<>>
    /\ base_url = None
    /\ seen_bases = {}
    /\ nodes = <<>>
    /\ idx = 0
    /\ counts = NewCounts
    /\ phase = "extract"
    /\ run = 1
    /\ important_files = <<>>
    /\ rule_log = <<>>

\* extract_urls: one iteration of `for line in file`
ExtractLine(line) ==
    /\ phase = "extract"
    /\ run = 1
    /\ Len(lines) < MaxLines
    /\ lines' = Append(lines, line)
    /\ urls' = urls \o ExtractLineUrls(line)
    /\ UNCHANGED <<base_url, seen_bases, nodes, idx, counts, phase, run, important_files, rule_log>>

\* main: `if not urls: ... sys.exit(1)`
NoUrls ==
    /\ phase = "extract"
    /\ urls = <<>>
    /\ phase' = "exit"
    /\ UNCHANGED <<lines, urls, base_url, seen_bases, nodes, idx, counts, run, important_files, rule_log>>

\* main: base_url = detect_base_url(urls), then build_tree creates the root
DetectBaseUrl ==
    /\ phase = "extract"
    /\ urls # <<>>
    /\ \E order \in IterationOrders(BaseUrlSet(urls)) :
           base_url' = detect_base_url(urls, order)
    /\ seen_bases' = seen_bases \cup {base_url'}
    /\ nodes' = <<TreeNode(<<"/">>, TRUE)>>
    /\ idx' = 0
    /\ phase' = "build"
    /\ UNCHANGED <<lines, urls, counts, run, important_files, rule_log>>

\* build_tree: one iteration of `for url in urls`
BuildTreeIter ==
    /\ phase = "build"
    /\ idx < Len(urls)
    /\ nodes' = BuildTreeUrl(nodes, urls[idx + 1], base_url)
    /\ idx' = idx + 1
    /\ UNCHANGED <<lines, urls, base_url, seen_bases, counts, phase, run, important_files, rule_log>>

\* main: counts = count_directories(root), once build_tree has returned
CountDirectories ==
    /\ phase = "build"
    /\ idx = Len(urls)
    /\ counts' = count_directories(nodes, Root, NewCounts, <<"/">>)
    /\ phase' = "done"
    /\ UNCHANGED <<lines, urls, base_url, seen_bases, nodes, idx, run, important_files, rule_log>>

\* main() executed again, by a new process, on the same input file
Rerun ==
    /\ phase = "done"
    /\ run < MaxRuns
    /\ run' = run + 1
    /\ urls' = extract_urls(lines)
    /\ base_url' = None
    /\ nodes' = <<>>
    /\ idx' = 0
    /\ counts' = NewCounts
    /\ phase' = "extract"
    /\ important_files' = <<>>
    /\ rule_log' = <<>>
    /\ UNCHANGED <<lines, seen_bases>>

\* main: important_files = identify_important_files(urls)
IdentifyImportantFiles ==
    /\ phase = "done"
    /\ important_files' = identify_important_files(urls).important_files
    /\ rule_log' = identify_important_files(urls).log
    /\ phase' = "classified"
    /\ UNCHANGED <<lines, urls, base_url, seen_bases, nodes, idx, counts, run>>

Next ==
    \/ \E line \in TreeLines : ExtractLine(line)
    \/ NoUrls
    \/ DetectBaseUrl
    \/ BuildTreeIter
    \/ CountDirectories

Spec == Init /\ [][Next]_vars

NextExtract ==
    \/ \E line \in ExtractLines : ExtractLine(line)
    \/ NoUrls
    \/ DetectBaseUrl
    \/ BuildTreeIter
    \/ CountDirectories

SpecExtract == Init /\ [][NextExtract]_vars

NextBase ==
    \/ \E line \in BaseLines : ExtractLine(line)
    \/ NoUrls
    \/ DetectBaseUrl
    \/ BuildTreeIter
    \/ CountDirectories
    \/ Rerun

SpecBase == Init /\ [][NextBase]_vars

NextClassify ==
    \/ \E line \in ClassifyLines : ExtractLine(line)
    \/ NoUrls
    \/ DetectBaseUrl
    \/ BuildTreeIter
    \/ CountDirectories
    \/ IdentifyImportantFiles

SpecClassify == Init /\ [][NextClassify]_vars

----------------------------------------------------------------------------
(* What the properties below speak of. *)

\* build_tree has started: nodes holds a tree
Built == phase \in {"build", "done"}

NodeIds == 1..Len(nodes)

\* the children of node n, as node indices
Children(n) == {nodes[n].children[k] : k \in DOMAIN nodes[n].children}

\* the non-empty segments of the path build_tree takes from url
Segments(url) == SelectSeq(PathParts(AdjustedPath(url, base_url)), LAMBDA part : part # <<>>)

\* the node reached from n by following segs through the children mappings; 0 if none
RECURSIVE NodeAt(_, _)
NodeAt(n, segs) ==
    IF segs = <<>> THEN n
    ELSE IF Head(segs) \in DOMAIN nodes[n].children
         THEN NodeAt(nodes[n].children[Head(segs)], Tail(segs))
         ELSE 0

\* the sequences of node names that lead from the root to node n (a parent is
\* created before its children, so it has a smaller index)
RECURSIVE PathsTo(_)
PathsTo(n) ==
    IF n = Root THEN {<<>>}
    ELSE UNION {{Append(p, nodes[n].name) : p \in PathsTo(m)} :
                    m \in {q \in 1..(n - 1) : n \in Children(q)}}

\* the URLs build_tree has processed
Processed == 1..idx

----------------------------------------------------------------------------
(* C1: after build_tree has processed any sequence of URLs, no two children   *)
(* of the same node have names that are equal when compared                   *)
(* case-insensitively.                                                        *)
C1_SiblingsDifferIgnoringCase ==
    Built =>
        \A n \in NodeIds : \A c1, c2 \in Children(n) :
            c1 # c2 => Lower(nodes[c1].name) # Lower(nodes[c2].name)

(* C3: every path among the URLs processed is in the tree at exactly one      *)
(* node, the node reached by following its non-empty segments from the root;  *)
(* and every non-root node is reached from the root by exactly one sequence   *)
(* of segment names.                                                          *)
C3_TreeCompleteness ==
    Built =>
        /\ \A i \in Processed :
               LET segs == Segments(urls[i])
               IN  /\ NodeAt(Root, segs) \in NodeIds
                   /\ {n \in NodeIds : segs \in PathsTo(n)} = {NodeAt(Root, segs)}
        /\ \A n \in NodeIds \ {Root} : Cardinality(PathsTo(n)) = 1

\* two URLs of different depths have been processed, one a prefix of the other
C3_Witness ==
    /\ Built
    /\ \E i, j \in Processed :
           /\ Len(Segments(urls[i])) = 2
           /\ Len(Segments(urls[j])) = 1
           /\ i < j
           /\ Segments(urls[j]) = SubSeq(Segments(urls[i]), 1, 1)
    /\ Len(nodes) >= 3

(* C4: file nodes are leaves: every node that has a child has kind directory, *)
(* also when a path uses as an intermediate segment a name an earlier URL     *)
(* created as a file.                                                         *)
C4_FilesAreLeaves ==
    Built => \A n \in NodeIds : Children(n) # {} => nodes[n].is_dir

(* C5: once a node has kind directory during build_tree, it has kind          *)
(* directory after every later URL is processed.                              *)
C5_DirectoryStaysDirectory ==
    [][(phase = "build" /\ phase' \in {"build", "done"}) =>
          \A n \in NodeIds : nodes[n].is_dir => (n <= Len(nodes') /\ nodes'[n].is_dir)]_vars

\* a path was processed first with a trailing slash and later without one, and
\* its node is a directory
C5_Witness ==
    /\ Built
    /\ \E i, j \in Processed :
           /\ i < j
           /\ Segments(urls[i]) # <<>>
           /\ Segments(urls[i]) = Segments(urls[j])
           /\ is_dir(urls[i])
           /\ ~is_dir(urls[j])
           /\ nodes[NodeAt(Root, Segments(urls[j]))].is_dir

\* the key of counts['directories'] for the node reached by segs
DirectoryKey(segs) == JoinSegs(segs)

(* C6: for every directory node of the tree, the entry count_directories      *)
(* records for it has subdirs equal to the number of its immediate directory  *)
(* children and files equal to the number of its immediate file children.     *)
C6_PerDirectoryCounts ==
    phase = "done" =>
        \A n \in NodeIds : nodes[n].is_dir =>
            \A p \in PathsTo(n) :
                /\ DirectoryKey(p) \in DOMAIN counts.directories
                /\ counts.directories[DirectoryKey(p)].subdirs =
                       Cardinality({c \in Children(n) : nodes[c].is_dir})
                /\ counts.directories[DirectoryKey(p)].files =
                       Cardinality({c \in Children(n) : ~nodes[c].is_dir})

(* C7: the traversal visits every node once: total_dirs is the number of      *)
(* directory nodes of the tree, root included, and total_files the number of  *)
(* file nodes.                                                                *)
C7_Totals ==
    phase = "done" =>
        /\ counts.total_dirs = Cardinality({n \in NodeIds : nodes[n].is_dir})
        /\ counts.total_files = Cardinality({n \in NodeIds : ~nodes[n].is_dir})

(* C9: the node of a path that some URL presented with a trailing slash has   *)
(* kind directory, whatever URLs came before; a path every sighting of which  *)
(* has no trailing slash and that is no other path's prefix has kind file.    *)
C9_KindFollowsDirectoryMark ==
    Built =>
        \A i \in Processed :
            LET segs == Segments(urls[i])
                node == nodes[NodeAt(Root, segs)]
            IN  segs # <<>> =>
                    /\ is_dir(urls[i]) => node.is_dir
                    /\ (\A j \in Processed :
                            /\ Segments(urls[j]) = segs => ~is_dir(urls[j])
                            /\ ~(/\ Len(Segments(urls[j])) > Len(segs)
                                 /\ SubSeq(Segments(urls[j]), 1, Len(segs)) = segs))
                       => ~node.is_dir

----------------------------------------------------------------------------
(* The record list handed on by main. *)

\* the root-relative path of the record extracted as url
RecordPath(url) == urlparse(url).path

UpperChar(c) == IF c = "a" THEN "A" ELSE IF c = "b" THEN "B" ELSE c

\* str.isupper(): some cased character, and no lower-case one
IsUpper(s) ==
    /\ \E i \in 1..Len(s) : LowerChar(s[i]) # s[i]
    /\ \A i \in 1..Len(s) : UpperChar(s[i]) = s[i]

\* the path the deduplication policy keeps among the records of `found` that
\* collide with found[k] on the lower-cased path
KeptPath(found, k) ==
    LET group == {j \in 1..Len(found) :
                     Lower(RecordPath(found[j])) = Lower(RecordPath(found[k]))}
        last == CHOOSE j \in group : \A m \in group : m <= j
    IN  IF \E j \in group : IsUpper(RecordPath(found[j]))
        THEN RecordPath(found[CHOOSE j \in group : IsUpper(RecordPath(found[j]))])
        ELSE RecordPath(found[last])

(* C2: the resource list that reaches the tree builder holds at most one      *)
(* record per case-insensitive path; of the records that collide on the       *)
(* lower-cased path the fully upper-case one is kept if there is one,         *)
(* otherwise the one encountered last.                                        *)
C2_OneRecordPerLowerCasedPath ==
    Built =>
        /\ \A i, j \in 1..Len(urls) :
               i # j => Lower(RecordPath(urls[i])) # Lower(RecordPath(urls[j]))
        /\ \A k \in 1..Len(extract_urls(lines)) :
               \E i \in 1..Len(urls) : RecordPath(urls[i]) = KeptPath(extract_urls(lines), k)

\* the first whitespace-delimited token of the line
StatusToken(line) == SubSeq(line, 1, FirstOf(line, Whitespace) - 1)

AcceptedCodes == {<<"2", "0", "0">>}

\* a line the parser of the specification accepts: a URL and an accepted status code
MatchingLine(line) == UrlPatternSearch(line) /\ StatusToken(line) \in AcceptedCodes

(* C8: a batch with non-matching lines (noise, empty lines, lines with no     *)
(* status code or one outside {200}) produces the same tree as the batch      *)
(* with those lines removed.                                                  *)
C8_NonMatchingLinesHaveNoEffect ==
    (phase = "done" /\ extract_urls(SelectSeq(lines, MatchingLine)) # <<>>) =>
        nodes = build_tree(extract_urls(SelectSeq(lines, MatchingLine)), base_url)

(* C10: detect_base_url returns the one scheme+host when there is exactly     *)
(* one; with several, one that prefixes the largest number of the URLs, the   *)
(* same one every time for the same URL list; None for no URLs.               *)
C10_BaseUrlMajorityDeterministic ==
    /\ detect_base_url(<<>>, <<>>) = None
    /\ Built =>
           /\ Cardinality(BaseUrlSet(urls)) = 1 => base_url \in BaseUrlSet(urls)
           /\ Cardinality(BaseUrlSet(urls)) > 1 =>
                  /\ base_url \in BaseUrlSet(urls)
                  /\ \A x \in BaseUrlSet(urls) :
                         MatchCount(urls, x) <= MatchCount(urls, base_url)
           /\ Cardinality(seen_bases) <= 1

----------------------------------------------------------------------------
(* Classification. *)

\* the precedence of the rules: the keyword rule, then credential-store,
\* backup/temp, network-config, database
Precedence ==
    <<"Sensitive Filenames", "Password Managers", "Backup Files",
      "Network Configuration Files", "Database Files">>

\* does the rule of this category match the file name
RuleMatches(category, filename) ==
    PatternSearch(CHOOSE k \in 1..Len(ImportantPatterns) :
                      ImportantPatterns[k].category = category, filename)

\* the positions in Precedence of the rules that match the file name
MatchingRules(filename) ==
    {k \in 1..Len(Precedence) : RuleMatches(Precedence[k], filename)}

FirstMatchingRule(filename) ==
    CHOOSE k \in MatchingRules(filename) : \A m \in MatchingRules(filename) : k <= m

(* C11: for each resource identify_important_files checks the keyword rule    *)
(* first, then the extension rules in the order credential-store,             *)
(* backup/temp, network-config, database, stops at the first rule that        *)
(* matches the file name, and records at most one entry for the resource      *)
(* however many rules match; a resource whose file name matches no rule gets  *)
(* none.                                                                      *)
C11_FirstMatchWins ==
    phase = "classified" =>
        /\ Len(rule_log) = Len(urls)
        /\ \A i \in 1..Len(rule_log) :
               LET filename == Basename(RecordPath(urls[i]))
               IN  /\ rule_log[i].added <= 1
                   /\ (filename # <<>> /\ MatchingRules(filename) # {}) =>
                          /\ rule_log[i].added = 1
                          /\ rule_log[i].checked =
                                 SubSeq(Precedence, 1, FirstMatchingRule(filename))
                   /\ (filename # <<>> /\ MatchingRules(filename) = {}) =>
                          /\ rule_log[i].added = 0
                          /\ rule_log[i].checked = Precedence
                   /\ filename = <<>> => rule_log[i].added = 0
        /\ Len(important_files) =
               Cardinality({i \in 1..Len(rule_log) : rule_log[i].added = 1})
        /\ \A j \in 1..Len(important_files) :
               \E i \in 1..Len(urls) :
                   important_files[j].url = urls[i] /\ rule_log[i].added = 1

\* a file name that two rules match has been classified, with one entry, and
\* so has a file name that no rule matches
C11_Witness ==
    /\ phase = "classified"
    /\ \E i \in 1..Len(urls) :
           /\ Cardinality(MatchingRules(Basename(RecordPath(urls[i])))) = 2
           /\ rule_log[i].added = 1
    /\ \E i \in 1..Len(urls) :
           /\ Basename(RecordPath(urls[i])) # <<>>
           /\ MatchingRules(Basename(RecordPath(urls[i]))) = {}
    /\ Len(important_files) = 1

----------------------------------------------------------------------------
(* Order of the input. *)

\* the sequences of node names that lead from the root of tree t to its node n
RECURSIVE PathsToIn(_, _)
PathsToIn(t, n) ==
    IF n = Root THEN {<<>>}
    ELSE UNION {{Append(p, t[n].name) : p \in PathsToIn(t, m)} :
                    m \in {q \in 1..(n - 1) :
                              \E k \in DOMAIN t[q].children : t[q].children[k] = n}}

\* the node paths of tree t, each with the kind of its node
TreeShape(t) == UNION {{<<p, t[n].is_dir>> : p \in PathsToIn(t, n)} : n \in 1..Len(t)}

\* the lists that hold the elements of us in another order
Reorderings(us) ==
    {[i \in 1..Len(us) |-> us[f[i]]] :
        f \in {g \in [1..Len(us) -> 1..Len(us)] :
                  \A i, j \in 1..Len(us) : i # j => g[i] # g[j]}}

(* C12: the tree build_tree produces does not depend on the order of the      *)
(* URLs: every permutation of the list gives the same set of node paths and   *)
(* the same kind at each node.                                                *)
C12_OrderIndependent ==
    phase = "done" =>
        \A us \in Reorderings(urls) : TreeShape(build_tree(us, base_url)) = TreeShape(nodes)

====
